---- MODULE Spec2Model ----
(***************************************************************************)
(* A model of the SOCKS4 / SOCKS4A client of src/v4.rs: one session of    *)
(* Socks4Stream::connect or Socks4Listener::bind, the listener's accept   *)
(* and proxy_addr, and the byte-stream operations of the resulting        *)
(* Socks4Stream, together with the proxy and the network as environment.  *)
(*                                                                         *)
(* Bytes are naturals 0..255.  A u16 is a natural.  A u32 is kept as the   *)
(* pair <<high 16 bits, low 16 bits>>, because TLC's integers are 32-bit   *)
(* signed and an address such as 203.0.113.5 does not fit in one.          *)
(***************************************************************************)
EXTENDS Integers, Sequences, FiniteSets, TLC

VARIABLES
    pc,          \* where the caller is: inside connect_raw, holding an object, or done
    entry,       \* the public function the caller entered: "connect" or "bind"
    command,     \* connect_raw's command argument: 1 (connect) or 2 (bind)
    proxy,       \* the caller's proxy argument, a ToSocketAddrs value
    target,      \* the caller's target argument
    userid,      \* the caller's userid argument, as bytes
    socket,      \* the TcpStream of the session: "none", "open" or "closed"
    peer,        \* the address the TcpStream is connected to
    net,         \* the connection as the client's socket has it: "down", "up",
                 \* "eof" (the proxy's FIN has arrived), "err" (a reset has arrived
                 \* and its error is pending), "shut" (reset, the error reported or
                 \* none pending)
    packet,      \* connect_raw's local Vec<u8>
    wire,        \* every byte the client has written to the socket, in order
    inbox,       \* every byte the proxy has sent on the connection, in order
    rpos,        \* how many bytes of inbox the client has read from the socket
    response,    \* read_response's 8-byte buffer, as filled so far by read_exact
    proxy_addr,  \* the proxy_addr field of the session's Socks4Stream
    received,    \* the bytes Socks4Stream::read has handed to the caller
    wrote,       \* how many bytes the caller has written through the Socks4Stream
    accepts,     \* how many times accept has been called on the listener
    ret          \* what the last call returned to the caller

vars == << pc, entry, command, proxy, target, userid, socket, peer, net, packet, wire, inbox,
           rpos, response, proxy_addr, received, wrote, accepts, ret >>

----------------------------------------------------------------------------
(* Bounds of the model. *)

\* how many bytes the proxy sends after the handshake replies
MaxPayload == 2
\* how many bytes the caller writes through the stream
MaxWrite == 1

----------------------------------------------------------------------------
(* Values. *)

\* a read that takes all that has arrived, whatever room the buffer has
Min_all(a, b) == a

Min(a, b) == IF a < b THEN a ELSE b

Prefix(s, n) == SubSeq(s, 1, n)

\* std::net::SocketAddr: V4(ip, port) or V6(ip, port, ..); "None" when there is none
NoAddr == [fam |-> "None", ip |-> << >>, port |-> 0]
V4(ip, port) == [fam |-> "V4", ip |-> ip, port |-> port]
V6(ip, port) == [fam |-> "V6", ip |-> ip, port |-> port]

\* io::Error: its ErrorKind and its message
NoErr == [kind |-> "None", msg |-> ""]
Error(kind, msg) == [kind |-> kind, msg |-> msg]

\* a call's result: Ok with an address or a byte count, or Err
Ok(op, addr, n) == [op |-> op, ok |-> TRUE, err |-> NoErr, addr |-> addr, n |-> n]
Err(op, e) == [op |-> op, ok |-> FALSE, err |-> e, addr |-> NoAddr, n |-> 0]
NoRet == [op |-> "", ok |-> TRUE, err |-> NoErr, addr |-> NoAddr, n |-> 0]

\* TargetAddr::Ip(SocketAddr) or TargetAddr::Domain(host, port)
Ip(addr) == [tag |-> "Ip", addr |-> addr, host |-> << >>]
Domain(host, port) == [tag |-> "Domain", addr |-> [fam |-> "None", ip |-> << >>, port |-> port], host |-> host]
\* a caller's value whose to_target_addr fails
BadTarget == [tag |-> "Bad", addr |-> NoAddr, host |-> << >>]

----------------------------------------------------------------------------
(* byteorder's big-endian reads and writes, and Ipv4Addr <-> u32. *)

read_u16_be(b, i) == b[i] * 256 + b[i + 1]

read_u32_be(b, i) == << b[i] * 256 + b[i + 1], b[i + 2] * 256 + b[i + 3] >>

write_u16_be(v) == << v \div 256, v % 256 >>

write_u32_be(v) == << v[1] \div 256, v[1] % 256, v[2] \div 256, v[2] % 256 >>

\* Ipv4Addr::from(u32): the most significant byte is the first octet
Ipv4Addr_from(v) == << v[1] \div 256, v[1] % 256, v[2] \div 256, v[2] % 256 >>

\* u32::from(Ipv4Addr)
Ipv4Addr_into(ip) == << ip[1] * 256 + ip[2], ip[3] * 256 + ip[4] >>

----------------------------------------------------------------------------
(* The values the model draws its inputs from. *)

\* the userids the caller passes (a &str may hold U+0000)
UserIds == { << >>, << 117 >>, << 117, 0, 118 >> }

Ipv6Loop == << 0, 0, 0, 0, 0, 0, 0, 0, 0, 0, 0, 0, 0, 0, 0, 1 >>

Targets ==
    { Ip(V4(<< 198, 51, 100, 7 >>, 443)),
      Ip(V6(Ipv6Loop, 8080)),
      Domain(<< 104, 46, 105 >>, 8080),
      BadTarget }

\* a ToSocketAddrs value: a list of addresses, or a string that is no address
ProxyAddrs(addrs) == [tag |-> "Addrs", addrs |-> addrs]
ProxyStr == [tag |-> "Str", addrs |-> << >>]

\* the addresses the proxy is reached at
Peers == { V4(<< 203, 0, 113, 5 >>, 1080), V6(Ipv6Loop, 1080) }

\* the proxy arguments the caller passes: one address, no address,
\* "not-an-address"
Proxies == { ProxyAddrs(<< p >>) : p \in Peers } \cup { ProxyAddrs(<< >>), ProxyStr }

\* what connecting to an address that does not answer fails with
ConnectErrors == { Error("ConnectionRefused", "os error"), Error("TimedOut", "os error") }

\* bytes 2..7 of a reply: port and address
Tails ==
    { << 31, 144, 10, 0, 0, 1 >>,      \* 10.0.0.1:8080
      << 31, 144, 0, 0, 0, 0 >>,       \* 0.0.0.0:8080
      << 0, 80, 0, 0, 2, 0 >> }        \* 0.0.2.0:80

Versions == {0, 4}

Statuses == {0, 90, 91, 92, 93, 94}

\* the replies the proxy may send: every granted reply, and one reply of every
\* other version and status
Replies ==
    { << 0, 90 >> \o t : t \in Tails }
      \cup { << v, s >> \o << 31, 144, 10, 0, 0, 1 >> : v \in Versions, s \in Statuses }

\* the bytes the proxy sends after its replies
PayloadBytes == {7, 90}

\* the bytes the caller writes through the stream
WriteBytes == {33}

AllBytes == 0 .. 255

----------------------------------------------------------------------------
(* The reply decoder: read_response after its read_exact. *)

DecodeOk(addr) == [ok |-> TRUE, err |-> NoErr, addr |-> addr]
DecodeErr(e) == [ok |-> FALSE, err |-> e, addr |-> NoAddr]

ErrVersion == Error("InvalidData", "invalid response version")
ErrRejected == Error("Other", "request rejected or failed")
ErrIdentd == Error("PermissionDenied", "request rejected because SOCKS server cannot connect to idnetd on the client")
ErrUserId == Error("PermissionDenied", "request rejected because the client program and identd report different user-ids")
ErrCode == Error("InvalidData", "invalid response code")
ErrIpv6 == Error("InvalidInput", "SOCKS4 does not support IPv6")

\* a match that lacks the arm for 93
response_status_no93(code) ==
    CASE code = 90 -> NoErr
      [] code = 91 -> ErrRejected
      [] code = 92 -> ErrIdentd
      [] OTHER -> ErrCode

\* the match on the status byte
response_status(code) ==
    CASE code = 90 -> NoErr
      [] code = 91 -> ErrRejected
      [] code = 92 -> ErrIdentd
      [] code = 93 -> ErrUserId
      [] OTHER -> ErrCode

\* a decoder that reads the port little-endian
response_addr_le(buf) == V4(Ipv4Addr_from(read_u32_be(buf, 5)), buf[4] * 256 + buf[3])

\* the port and the address of a granted reply
response_addr(buf) == V4(Ipv4Addr_from(read_u32_be(buf, 5)), read_u16_be(buf, 3))

\* a decoder that looks at the status byte before the version byte
decode_response_status_first(buf) ==
    IF response_status(buf[2]) # NoErr THEN DecodeErr(response_status(buf[2]))
    ELSE IF buf[1] # 0 THEN DecodeErr(ErrVersion)
    ELSE DecodeOk(response_addr(buf))

\* a decoder that takes every status of a version-0 reply as granted
decode_response_any_status(buf) ==
    IF buf[1] # 0 THEN DecodeErr(ErrVersion)
    ELSE DecodeOk(response_addr(buf))

\* read_response on the 8 bytes read_exact has filled
decode_response(buf) ==
    IF buf[1] # 0 THEN DecodeErr(ErrVersion)
    ELSE IF response_status(buf[2]) # NoErr THEN DecodeErr(response_status(buf[2]))
    ELSE DecodeOk(response_addr(buf))

----------------------------------------------------------------------------
(* The request encoder: the packet connect_raw builds. *)

packet_header(cmd) == << 4, cmd >>

\* an encoder that writes the port little-endian
packet_ip_le(cmd, addr, uid) ==
    packet_header(cmd) \o << addr.port % 256, addr.port \div 256 >>
        \o write_u32_be(Ipv4Addr_into(addr.ip)) \o uid \o << 0 >>

\* an encoder that cuts the userid at its first zero byte
packet_ip_truncating(cmd, addr, uid) ==
    LET nul == { i \in 1 .. Len(uid) : uid[i] = 0 }
        cut == IF nul = {} THEN Len(uid)
               ELSE (CHOOSE i \in nul : \A j \in nul : i <= j) - 1
    IN  packet_header(cmd) \o write_u16_be(addr.port) \o write_u32_be(Ipv4Addr_into(addr.ip))
            \o SubSeq(uid, 1, cut) \o << 0 >>

packet_ip(cmd, addr, uid) ==
    packet_header(cmd) \o write_u16_be(addr.port) \o write_u32_be(Ipv4Addr_into(addr.ip))
        \o uid \o << 0 >>

\* an encoder that leaves the domain name unterminated
packet_domain_unterminated(cmd, host, port, uid) ==
    packet_header(cmd) \o write_u16_be(port) \o write_u32_be(Ipv4Addr_into(<< 0, 0, 0, 1 >>))
        \o uid \o << 0 >> \o host

packet_domain(cmd, host, port, uid) ==
    packet_header(cmd) \o write_u16_be(port) \o write_u32_be(Ipv4Addr_into(<< 0, 0, 0, 1 >>))
        \o uid \o << 0 >> \o host \o << 0 >>

\* an encoder without the IPv6 arm: what is in the buffer goes out
build_packet_no_v6_check(cmd, t, uid) ==
    IF t.tag = "Domain" THEN [ok |-> TRUE, bytes |-> packet_domain(cmd, t.host, t.addr.port, uid)]
    ELSE IF t.addr.fam = "V4" THEN [ok |-> TRUE, bytes |-> packet_ip(cmd, t.addr, uid)]
    ELSE [ok |-> TRUE, bytes |-> packet_header(cmd)]

\* the packet connect_raw has built when it writes it, or when it returns early
build_packet(cmd, t, uid) ==
    IF t.tag = "Domain" THEN [ok |-> TRUE, bytes |-> packet_domain(cmd, t.host, t.addr.port, uid)]
    ELSE IF t.addr.fam = "V4" THEN [ok |-> TRUE, bytes |-> packet_ip(cmd, t.addr, uid)]
    ELSE [ok |-> FALSE, bytes |-> packet_header(cmd)]

\* ToTargetAddr::to_target_addr of the caller's value
to_target_addr(t) == IF t.tag = "Bad" THEN [ok |-> FALSE, val |-> t] ELSE [ok |-> TRUE, val |-> t]

----------------------------------------------------------------------------
(* The session. *)

\* the command connect and bind pass to connect_raw
command_code(e) == IF e = "connect" THEN 1 ELSE 2

Init ==
    /\ pc = "tcp_connect"
    /\ entry \in {"connect", "bind"}
    /\ command = command_code(entry)
    /\ proxy \in Proxies
    /\ target \in Targets
    /\ userid \in UserIds
    /\ socket = "none"
    /\ peer = NoAddr
    /\ net = "down"
    /\ packet = << >>
    /\ wire = << >>
    /\ inbox = << >>
    /\ rpos = 0
    /\ response = << >>
    /\ proxy_addr = NoAddr
    /\ received = << >>
    /\ wrote = 0
    /\ accepts = 0
    /\ ret = NoRet

\* the bytes the proxy has sent and the client has not read
Avail == Len(inbox) - rpos

\* a failure that leaves the socket and the stream in place
Fail_leaves_open(op, e) ==
    /\ pc' = "Err"
    /\ ret' = Err(op, e)
    /\ UNCHANGED << socket, proxy_addr >>

\* an operation returns Err: the socket it owns is dropped, and no object exists
Fail(op, e) ==
    /\ pc' = "Err"
    /\ ret' = Err(op, e)
    /\ socket' = "closed"
    /\ proxy_addr' = NoAddr

\* ToSocketAddrs::to_socket_addrs of the proxy argument
to_socket_addrs(p) ==
    IF p.tag = "Str"
    THEN [ok |-> FALSE, err |-> Error("InvalidInput", "invalid socket address"), addrs |-> << >>]
    ELSE [ok |-> TRUE, err |-> NoErr, addrs |-> p.addrs]

\* a connect_raw that checks the target before it opens the connection
TcpConnect_validating ==
    /\ pc = "tcp_connect"
    /\ IF target.tag = "Bad" \/ (target.tag = "Ip" /\ target.addr.fam = "V6")
       THEN /\ pc' = "Err"
            /\ ret' = Err(entry, Error("InvalidInput", "invalid target"))
            /\ UNCHANGED << socket, peer, net >>
       ELSE
            /\ LET a == to_socket_addrs(proxy)
               IN  \/ /\ ~a.ok
                      /\ pc' = "Err"
                      /\ ret' = Err(entry, a.err)
                      /\ UNCHANGED << socket, peer, net >>
                   \/ /\ a.ok
                      /\ a.addrs = << >>
                      /\ pc' = "Err"
                      /\ ret' = Err(entry, Error("InvalidInput", "could not resolve to any addresses"))
                      /\ UNCHANGED << socket, peer, net >>
                   \/ /\ a.ok
                      /\ a.addrs # << >>
                      /\ \E e \in ConnectErrors :
                           /\ pc' = "Err"
                           /\ ret' = Err(entry, e)
                      /\ UNCHANGED << socket, peer, net >>
                   \/ /\ a.ok
                      /\ \E k \in 1 .. Len(a.addrs) :
                           /\ socket' = "open"
                           /\ peer' = a.addrs[k]
                           /\ net' = "up"
                           /\ pc' = "resolve"
                           /\ UNCHANGED ret
    /\ UNCHANGED << entry, command, proxy, target, userid, packet, wire, inbox, rpos, response,
                    proxy_addr, received, wrote, accepts >>

\* TcpStream::connect(proxy): the argument is converted to addresses, which are
\* tried in order; the error is the conversion's, or that of the last address
\* tried, or InvalidInput when there was none to try
TcpConnect ==
    /\ pc = "tcp_connect"
    /\ LET a == to_socket_addrs(proxy)
       IN  \/ /\ ~a.ok
              /\ pc' = "Err"
              /\ ret' = Err(entry, a.err)
              /\ UNCHANGED << socket, peer, net >>
           \/ /\ a.ok
              /\ a.addrs = << >>
              /\ pc' = "Err"
              /\ ret' = Err(entry, Error("InvalidInput", "could not resolve to any addresses"))
              /\ UNCHANGED << socket, peer, net >>
           \/ /\ a.ok
              /\ a.addrs # << >>
              /\ \E e \in ConnectErrors :
                   /\ pc' = "Err"
                   /\ ret' = Err(entry, e)
              /\ UNCHANGED << socket, peer, net >>
           \/ /\ a.ok
              /\ \E k \in 1 .. Len(a.addrs) :
                   /\ socket' = "open"
                   /\ peer' = a.addrs[k]
                   /\ net' = "up"
                   /\ pc' = "resolve"
                   /\ UNCHANGED ret
    /\ UNCHANGED << entry, command, proxy, target, userid, packet, wire, inbox, rpos, response,
                    proxy_addr, received, wrote, accepts >>

\* target.to_target_addr()
Resolve ==
    /\ pc = "resolve"
    /\ IF to_target_addr(target).ok
       THEN /\ pc' = "encode"
            /\ UNCHANGED << ret, socket, proxy_addr >>
       ELSE Fail(entry, Error("InvalidInput", "invalid target"))
    /\ UNCHANGED << entry, command, proxy, target, userid, peer, net, packet, wire, inbox, rpos,
                    response, received, wrote, accepts >>

\* the packet is built in the local buffer; an IPv6 target returns early
Encode ==
    /\ pc = "encode"
    /\ LET b == build_packet(command, to_target_addr(target).val, userid)
       IN  /\ packet' = b.bytes
           /\ IF b.ok
              THEN /\ pc' = "write_all"
                   /\ UNCHANGED << ret, socket, proxy_addr >>
              ELSE Fail(entry, ErrIpv6)
    /\ UNCHANGED << entry, command, proxy, target, userid, peer, net, wire, inbox, rpos, response,
                    received, wrote, accepts >>

\* what a write on the socket fails with, if it fails: the pending error of a
\* reset, and BrokenPipe once the socket is shut
write_error(n) ==
    IF n = "err" THEN Error("ConnectionReset", "os error")
    ELSE IF n = "shut" THEN Error("BrokenPipe", "os error")
    ELSE NoErr

\* socket.write_all(&packet): the packet fits the socket's send buffer, so one
\* write takes it whole or fails
WriteAll ==
    /\ pc = "write_all"
    /\ IF write_error(net) = NoErr
       THEN /\ wire' = wire \o packet
            /\ pc' = "read_response"
            /\ UNCHANGED << ret, socket, proxy_addr >>
       ELSE /\ Fail(entry, write_error(net))
            /\ UNCHANGED wire
    /\ UNCHANGED << entry, command, proxy, target, userid, peer, net, packet, inbox, rpos, response,
                    received, wrote, accepts >>

\* an accept that hands the listener back
Granted_listener_again(at, e) == IF e = "bind" THEN "Listener" ELSE "Stream"

\* the object the caller holds after a granted reply: bind wraps the stream
\* of connect_raw in a listener, accept unwraps it
Granted(at, e) == IF at = "read_response" /\ e = "bind" THEN "Listener" ELSE "Stream"

\* the proxy_addr of the Socks4Stream connect_raw constructs
connect_store(addr) == addr

\* an accept that keeps the first reply's address and takes the second's port
accept_store_merged(stored, addr) == [stored EXCEPT !.port = addr.port]

\* accept assigns the second reply's address to the listener's stream
accept_store(stored, addr) == addr

\* a read loop that starts the buffer anew on every read
read_exact_fill_restart(buf, chunk) == chunk

\* read_exact appends what one read returned to what it has
read_exact_fill(buf, chunk) == buf \o chunk

\* a read_response that gives up when no byte has arrived
read_response_with_timeout ==
    /\ pc \in {"read_response", "accept"}
    /\ LET op == IF pc = "accept" THEN "accept" ELSE entry
           n == Min(Avail, 8 - Len(response))
           filled == read_exact_fill(response, SubSeq(inbox, rpos + 1, rpos + n))
           d == decode_response(filled)
       IN  \/ /\ net = "err"
              /\ Avail = 0
              /\ Fail(op, Error("ConnectionReset", "os error"))
              /\ response' = << >>
              /\ UNCHANGED rpos
           \/ /\ net = "up"
              /\ Avail = 0
              /\ Fail(op, Error("TimedOut", "timed out"))
              /\ response' = << >>
              /\ UNCHANGED rpos
           \/ /\ net \in {"eof", "shut"}
              /\ Avail = 0
              /\ Fail(op, Error("UnexpectedEof", "failed to fill whole buffer"))
              /\ response' = << >>
              /\ UNCHANGED rpos
           \/ /\ Avail > 0
              /\ rpos' = rpos + n
              /\ IF Len(filled) < 8
                 THEN /\ response' = filled
                      /\ UNCHANGED << pc, ret, socket, proxy_addr >>
                 ELSE /\ response' = << >>
                      /\ IF d.ok
                         THEN /\ proxy_addr' = IF pc = "accept"
                                                THEN accept_store(proxy_addr, d.addr)
                                                ELSE connect_store(d.addr)
                              /\ pc' = Granted(pc, entry)
                              /\ ret' = Ok(op, NoAddr, 0)
                              /\ UNCHANGED socket
                         ELSE Fail(op, d.err)
    /\ UNCHANGED << entry, command, proxy, target, userid, peer, net, packet, wire, inbox, received,
                    wrote, accepts >>

\* read_response, from connect_raw or from accept: read_exact takes what has
\* arrived, and with 8 bytes the reply is decoded
read_response ==
    /\ pc \in {"read_response", "accept"}
    /\ LET op == IF pc = "accept" THEN "accept" ELSE entry
           n == Min(Avail, 8 - Len(response))
           filled == read_exact_fill(response, SubSeq(inbox, rpos + 1, rpos + n))
           d == decode_response(filled)
       IN  \/ /\ net = "err"
              /\ Avail = 0
              /\ Fail(op, Error("ConnectionReset", "os error"))
              /\ response' = << >>
              /\ UNCHANGED rpos
           \/ /\ net \in {"eof", "shut"}
              /\ Avail = 0
              /\ Fail(op, Error("UnexpectedEof", "failed to fill whole buffer"))
              /\ response' = << >>
              /\ UNCHANGED rpos
           \/ /\ Avail > 0
              /\ rpos' = rpos + n
              /\ IF Len(filled) < 8
                 THEN /\ response' = filled
                      /\ UNCHANGED << pc, ret, socket, proxy_addr >>
                 ELSE /\ response' = << >>
                      /\ IF d.ok
                         THEN /\ proxy_addr' = IF pc = "accept"
                                                THEN accept_store(proxy_addr, d.addr)
                                                ELSE connect_store(d.addr)
                              /\ pc' = Granted(pc, entry)
                              /\ ret' = Ok(op, NoAddr, 0)
                              /\ UNCHANGED socket
                         ELSE Fail(op, d.err)
    /\ UNCHANGED << entry, command, proxy, target, userid, peer, net, packet, wire, inbox, received,
                    wrote, accepts >>

----------------------------------------------------------------------------
(* Socks4Listener. *)

\* what TcpStream::peer_addr can return: it may fail once the connection is broken
peer_addr ==
    { DecodeOk(peer) } \cup
    (IF net \in {"err", "shut"} THEN { DecodeErr(Error("NotConnected", "os error")) } ELSE { })

\* a proxy_addr that looks at the first octet only
listener_proxy_addr_first_octet(stored, q) ==
    IF stored.ip[1] # 0
    THEN DecodeOk(stored)
    ELSE IF q.ok
         THEN DecodeOk([fam |-> q.addr.fam, ip |-> q.addr.ip, port |-> stored.port])
         ELSE DecodeErr(q.err)

\* a proxy_addr that asks the transport for its peer before it looks at the
\* stored address
listener_proxy_addr_always_query(stored, q) ==
    IF ~q.ok
    THEN DecodeErr(q.err)
    ELSE IF stored.ip # << 0, 0, 0, 0 >>
         THEN DecodeOk(stored)
         ELSE DecodeOk([fam |-> q.addr.fam, ip |-> q.addr.ip, port |-> stored.port])

\* Socks4Listener::proxy_addr on the stored address; q is what peer_addr returns
\* when it is asked
listener_proxy_addr(stored, q) ==
    IF stored.ip # << 0, 0, 0, 0 >>
    THEN DecodeOk(stored)
    ELSE IF q.ok
         THEN DecodeOk([fam |-> q.addr.fam, ip |-> q.addr.ip, port |-> stored.port])
         ELSE DecodeErr(q.err)

Socks4Listener_proxy_addr ==
    /\ pc = "Listener"
    /\ \E q \in peer_addr :
         LET r == listener_proxy_addr(proxy_addr, q)
         IN  ret' = IF r.ok THEN Ok("Listener.proxy_addr", r.addr, 0)
                    ELSE Err("Listener.proxy_addr", r.err)
    /\ UNCHANGED << pc, entry, command, proxy, target, userid, socket, peer, net, packet, wire, inbox,
                    rpos, response, proxy_addr, received, wrote, accepts >>

\* an accept that sends the request again before it reads
accept_resend ==
    /\ pc = "Listener"
    /\ pc' = "accept"
    /\ accepts' = accepts + 1
    /\ wire' = wire \o packet
    /\ UNCHANGED << entry, command, proxy, target, userid, socket, peer, net, packet, inbox,
                    rpos, response, proxy_addr, received, wrote, ret >>

\* Socks4Listener::accept takes the listener and enters read_response
accept ==
    /\ pc = "Listener"
    /\ pc' = "accept"
    /\ accepts' = accepts + 1
    /\ UNCHANGED << entry, command, proxy, target, userid, socket, peer, net, packet, wire, inbox,
                    rpos, response, proxy_addr, received, wrote, ret >>

----------------------------------------------------------------------------
(* Socks4Stream. *)

\* a stream that substitutes the peer for 0.0.0.0 as the listener does
stream_proxy_addr_subst(stored) ==
    IF stored.ip = << 0, 0, 0, 0 >>
    THEN [fam |-> peer.fam, ip |-> peer.ip, port |-> stored.port]
    ELSE stored

\* Socks4Stream::proxy_addr returns the stored address
stream_proxy_addr(stored) == stored

Socks4Stream_proxy_addr ==
    /\ pc = "Stream"
    /\ ret' = Ok("Stream.proxy_addr", stream_proxy_addr(proxy_addr), 0)
    /\ UNCHANGED << pc, entry, command, proxy, target, userid, socket, peer, net, packet, wire, inbox,
                    rpos, response, proxy_addr, received, wrote, accepts >>

get_ref ==
    /\ pc = "Stream"
    /\ ret' = Ok("get_ref", NoAddr, 0)
    /\ UNCHANGED << pc, entry, command, proxy, target, userid, socket, peer, net, packet, wire, inbox,
                    rpos, response, proxy_addr, received, wrote, accepts >>

get_mut ==
    /\ pc = "Stream"
    /\ ret' = Ok("get_mut", NoAddr, 0)
    /\ UNCHANGED << pc, entry, command, proxy, target, userid, socket, peer, net, packet, wire, inbox,
                    rpos, response, proxy_addr, received, wrote, accepts >>

\* the stream is taken apart and the caller keeps the TcpStream
into_inner ==
    /\ pc = "Stream"
    /\ pc' = "Inner"
    /\ proxy_addr' = NoAddr
    /\ ret' = Ok("into_inner", NoAddr, 0)
    /\ UNCHANGED << entry, command, proxy, target, userid, socket, peer, net, packet, wire, inbox,
                    rpos, response, received, wrote, accepts >>

\* Read::read into a buffer of len bytes: self.socket.read(buf).  What has
\* arrived is read first; then a pending reset is reported, once; after that,
\* and after the proxy's FIN, a read returns 0.
read ==
    /\ pc = "Stream"
    /\ \E len \in 1 .. MaxPayload + 1 :
         LET n == Min(Avail, len)
         IN  \/ /\ net = "err"
                /\ Avail = 0
                /\ ret' = Err("read", Error("ConnectionReset", "os error"))
                /\ net' = "shut"
                /\ UNCHANGED << rpos, received >>
             \/ /\ net \in {"eof", "shut"}
                /\ Avail = 0
                /\ ret' = Ok("read", NoAddr, 0)
                /\ UNCHANGED << rpos, received, net >>
             \/ /\ Avail > 0
                /\ received' = received \o SubSeq(inbox, rpos + 1, rpos + n)
                /\ rpos' = rpos + n
                /\ ret' = Ok("read", NoAddr, n)
                /\ UNCHANGED net
    /\ UNCHANGED << pc, entry, command, proxy, target, userid, socket, peer, packet, wire, inbox,
                    response, proxy_addr, wrote, accepts >>

\* Write::write of one byte: self.socket.write(buf)
write ==
    /\ pc = "Stream"
    /\ wrote < MaxWrite
    /\ \E b \in WriteBytes :
         IF write_error(net) = NoErr
         THEN /\ wire' = Append(wire, b)
              /\ wrote' = wrote + 1
              /\ ret' = Ok("write", NoAddr, 1)
              /\ UNCHANGED net
         ELSE /\ ret' = Err("write", write_error(net))
              /\ net' = "shut"
              /\ UNCHANGED << wire, wrote >>
    /\ UNCHANGED << pc, entry, command, proxy, target, userid, socket, peer, packet, inbox, rpos,
                    response, proxy_addr, received, accepts >>

\* Write::flush: self.socket.flush(), which does nothing on a TcpStream
flush ==
    /\ pc = "Stream"
    /\ ret' = Ok("flush", NoAddr, 0)
    /\ UNCHANGED << pc, entry, command, proxy, target, userid, socket, peer, net, packet, wire, inbox,
                    rpos, response, proxy_addr, received, wrote, accepts >>

----------------------------------------------------------------------------
(* The proxy and the network. *)

\* how many replies the proxy sends in a session: one for CONNECT, two for BIND
NReplies == IF entry = "connect" THEN 1 ELSE 2

\* the proxy sends its next byte: a byte of a reply, then payload.  It starts
\* its first reply whenever it likes and goes on once the request is written;
\* the second reply of a BIND follows the target's connection, which comes
\* after the client has taken the first.
ProxySend ==
    /\ socket = "open"
    /\ net = "up"
    /\ LET p == Len(inbox)
           k == p % 8
       IN  /\ p >= 8 => pc \notin {"resolve", "encode", "write_all"}
           /\ (p >= 8 /\ NReplies = 2) => rpos >= 8
           /\ \E b \in AllBytes :
                /\ IF p < 8 * NReplies
                   THEN \E r \in Replies :
                          /\ r[k + 1] = b
                          /\ Prefix(r, k) = SubSeq(inbox, p - k + 1, p)
                   ELSE /\ b \in PayloadBytes
                        /\ p < 8 * NReplies + MaxPayload
                /\ inbox' = Append(inbox, b)
    /\ UNCHANGED << pc, entry, command, proxy, target, userid, socket, peer, net, packet, wire, rpos,
                    response, proxy_addr, received, wrote, accepts, ret >>

\* the proxy closes the connection: the client reads what was sent, then end of stream
ProxyClose ==
    /\ socket = "open"
    /\ net = "up"
    /\ net' = "eof"
    /\ UNCHANGED << pc, entry, command, proxy, target, userid, socket, peer, packet, wire, inbox, rpos,
                    response, proxy_addr, received, wrote, accepts, ret >>

\* a reset arrives: on a live connection its error is pending until a read or
\* a write reports it; after the proxy's FIN it leaves the socket shut
NetError ==
    /\ socket = "open"
    /\ net \in {"up", "eof"}
    /\ net' = IF net = "up" THEN "err" ELSE "shut"
    /\ UNCHANGED << pc, entry, command, proxy, target, userid, socket, peer, packet, wire, inbox, rpos,
                    response, proxy_addr, received, wrote, accepts, ret >>

----------------------------------------------------------------------------

Next ==
    \/ TcpConnect
    \/ Resolve
    \/ Encode
    \/ WriteAll
    \/ read_response
    \/ Socks4Listener_proxy_addr
    \/ accept
    \/ Socks4Stream_proxy_addr
    \/ get_ref
    \/ get_mut
    \/ into_inner
    \/ read
    \/ write
    \/ flush
    \/ ProxySend
    \/ ProxyClose
    \/ NetError

Spec == Init /\ [][Next]_vars

\* the sessions of one userid whose target is an address
LiveInit == Init /\ userid = << 117 >> /\ target.tag # "Domain"

\* a step of the proxy or of the network
Transport == ProxySend \/ ProxyClose \/ NetError

\* Each call of connect_raw and of accept runs to its next blocking point, and
\* the transport does not stay idle for ever under a connection that is up.
FairSpec ==
    /\ LiveInit
    /\ [][Next]_vars
    /\ WF_vars(TcpConnect)
    /\ WF_vars(Resolve)
    /\ WF_vars(Encode)
    /\ WF_vars(WriteAll)
    /\ WF_vars(read_response)
    /\ WF_vars(Transport)

----------------------------------------------------------------------------
(* Properties. *)

\* the k-th reply the proxy sent, and the address and port its bytes 2..7 spell
Reply(k) == SubSeq(inbox, 8 * (k - 1) + 1, 8 * k)
ReplyAddr(k) ==
    LET r == Reply(k)
    IN  [fam |-> "V4", ip |-> << r[5], r[6], r[7], r[8] >>, port |-> r[3] * 256 + r[4]]

\* the first reply has been read and decoded
Read1 == rpos >= 8

\* C1: once connect has read a reply 00 5A .., it has succeeded and the stream's
\* proxy address is the reply's address (bytes 4..7) and port (bytes 2..3,
\* big-endian), in every later state of the stream, whatever was called on it;
\* 00 5A 1F 90 0A 00 00 01 gives 10.0.0.1:8080.
C1_ConnectProxyAddr ==
    (entry = "connect" /\ Read1 /\ inbox[1] = 0 /\ inbox[2] = 90) =>
        /\ pc \in {"Stream", "Inner"}
        /\ ret.op = "connect" => ret.ok
        /\ pc = "Stream" => proxy_addr = ReplyAddr(1)
        /\ ret.op = "Stream.proxy_addr" => ret.ok /\ ret.addr = ReplyAddr(1)
        /\ (pc = "Stream" /\ Reply(1) = << 0, 90, 31, 144, 10, 0, 0, 1 >>) =>
               proxy_addr = [fam |-> "V4", ip |-> << 10, 0, 0, 1 >>, port |-> 8080]

\* a connect stream that was read from and written to still reports 10.0.0.1:8080
C1_Witness ==
    /\ entry = "connect"
    /\ pc = "Stream"
    /\ Reply(1) = << 0, 90, 31, 144, 10, 0, 0, 1 >>
    /\ received # << >>
    /\ wrote > 0
    /\ ret.op = "Stream.proxy_addr"
    /\ ret.addr = [fam |-> "V4", ip |-> << 10, 0, 0, 1 >>, port |-> 8080]


\* the second reply has been read and decoded: in a BIND session only accept
\* reads past the first reply
Read2 == entry = "bind" /\ rpos >= 16

\* the error the status byte of a reply with version 0 stands for
StatusError(code) ==
    CASE code = 91 -> [kind |-> "Other", msg |-> "request rejected or failed"]
      [] code = 92 -> [kind |-> "PermissionDenied",
                       msg |-> "request rejected because SOCKS server cannot connect to idnetd on the client"]
      [] code = 93 -> [kind |-> "PermissionDenied",
                       msg |-> "request rejected because the client program and identd report different user-ids"]
      [] OTHER -> [kind |-> "InvalidData", msg |-> "invalid response code"]

\* the outcome of the status byte: 91, 92, 93, or 0 for every other failure
StatusClass(code) == IF code \in {91, 92, 93} THEN code ELSE 0

\* the handshake phase that read reply k ended as the reply's status says
StatusOutcome(k, op) ==
    LET code == Reply(k)[2]
    IN  IF code = 90
        THEN ~(pc = "Err" /\ ret.op = op)
        ELSE /\ pc = "Err"
             /\ ret = [op |-> op, ok |-> FALSE, err |-> StatusError(code),
                       addr |-> NoAddr, n |-> 0]
             /\ \A other \in Statuses \ {90} :
                  StatusClass(other) # StatusClass(code) => ret.err # StatusError(other)

\* C2 (as amended): a reply with version 0 makes connect, bind or accept end as
\* its status byte says: 90 success, 91 Other "request rejected or failed",
\* 92 and 93 PermissionDenied with their two messages, any other value
\* InvalidData "invalid response code"; the four errors are pairwise distinct.
C2_StatusMapping ==
    /\ (Read1 /\ Reply(1)[1] = 0) => StatusOutcome(1, entry)
    /\ (Read2 /\ Reply(2)[1] = 0) => StatusOutcome(2, "accept")

\* C2 as stated: the four failures are also pairwise distinct error categories
\* (io::ErrorKind), so the category alone tells which failure occurred.
C2_DistinctCategories ==
    /\ C2_StatusMapping
    /\ (Read1 /\ Reply(1)[1] = 0 /\ pc = "Err" /\ ret.op = entry) =>
          \A other \in Statuses \ {90} :
             StatusClass(other) # StatusClass(Reply(1)[2]) =>
                 ret.err.kind # response_status(other).kind

\* connect has failed on a reply 00 5B with "request rejected or failed"
C2_Witness ==
    /\ entry = "connect"
    /\ Read1
    /\ Reply(1)[1] = 0
    /\ Reply(1)[2] = 91
    /\ pc = "Err"
    /\ ret.err = [kind |-> "Other", msg |-> "request rejected or failed"]

\* the handshake phase that read reply k failed on the version byte
VersionOutcome(k, op) ==
    /\ pc = "Err"
    /\ ret = [op |-> op, ok |-> FALSE,
              err |-> [kind |-> "InvalidData", msg |-> "invalid response version"],
              addr |-> NoAddr, n |-> 0]

\* C3 (as amended): a reply whose first byte is not 0 makes connect, bind or
\* accept fail with InvalidData "invalid response version" whatever the status
\* byte is; the error has the category of the error for an unknown status byte
\* (InvalidData) and differs from it in its message.
C3_VersionFirst ==
    /\ (Read1 /\ Reply(1)[1] # 0) =>
          /\ VersionOutcome(1, entry)
          /\ ret.err.kind = StatusError(0).kind
          /\ ret.err.msg # StatusError(0).msg
    /\ (Read2 /\ Reply(2)[1] # 0) =>
          /\ VersionOutcome(2, "accept")
          /\ ret.err.kind = StatusError(0).kind
          /\ ret.err.msg # StatusError(0).msg

\* C3 as stated: the version error's category differs from the category of
\* the error reported for an unknown status byte.
C3_DistinctCategory ==
    (Read1 /\ Reply(1)[1] # 0) =>
        /\ VersionOutcome(1, entry)
        /\ \A code \in Statuses \ {90, 91, 92, 93} :
              ret.err.kind # response_status(code).kind

\* connect has failed on a reply 04 5A .. with "invalid response version"
C3_Witness ==
    /\ entry = "connect"
    /\ Read1
    /\ Reply(1)[1] = 4
    /\ Reply(1)[2] = 90
    /\ pc = "Err"
    /\ ret.err.msg = "invalid response version"


IsV6Target == target.tag = "Ip" /\ target.addr.fam = "V6"
IsV4Target == target.tag = "Ip" /\ target.addr.fam = "V4"
IsDomainTarget == target.tag = "Domain"

\* C4: with an IPv6 target nothing is ever written to the transport and no
\* reply byte is read, and once the transport was opened connect and bind fail
\* with InvalidInput "SOCKS4 does not support IPv6".
C4_Ipv6NothingWritten ==
    IsV6Target =>
        /\ wire = << >>
        /\ rpos = 0
        /\ response = << >>
        /\ pc \in {"tcp_connect", "resolve", "encode", "Err"}
        /\ (pc = "Err" /\ socket = "closed") =>
              ret = [op |-> entry, ok |-> FALSE,
                     err |-> [kind |-> "InvalidInput", msg |-> "SOCKS4 does not support IPv6"],
                     addr |-> NoAddr, n |-> 0]

\* bind with an IPv6 target has failed: version and command were in the local
\* buffer, the proxy had already sent bytes, nothing was written or read
C4_Witness ==
    /\ IsV6Target
    /\ entry = "bind"
    /\ pc = "Err"
    /\ ret.err.kind = "InvalidInput"
    /\ packet = << 4, 2 >>
    /\ inbox # << >>
    /\ wire = << >>

\* the request has been written in full
Written == pc \in {"read_response", "Listener", "accept", "Stream", "Inner"}

\* s is the first Len(s) bytes of t
IsPrefix(s, t) == Len(s) <= Len(t) /\ SubSeq(t, 1, Len(s)) = s

\* the request the wire format asks for, for a domain and for an IPv4 target
DomainRequest(cmd) ==
    << 4, cmd, target.addr.port \div 256, target.addr.port % 256, 0, 0, 0, 1 >>
        \o userid \o << 0 >> \o target.host \o << 0 >>

Ipv4Request(cmd) ==
    << 4, cmd, target.addr.port \div 256, target.addr.port % 256 >>
        \o target.addr.ip \o userid \o << 0 >>

\* C5: for a Domain target the request on the wire is exactly
\* 04 command port(be) 00 00 00 01 userid 00 host 00, and nothing else is
\* written but what the caller writes through the stream; for an IPv4 target
\* the request ends with the userid's terminator.
C5_DomainRequest ==
    /\ IsDomainTarget =>
          /\ Written => /\ IsPrefix(DomainRequest(command), wire)
                        /\ Len(wire) = Len(DomainRequest(command)) + wrote
          /\ ~Written => IsPrefix(wire, DomainRequest(command))
          /\ (Written /\ entry = "connect" /\ userid = << 117 >> /\ wrote = 0) =>
                wire = << 4, 1, 31, 144, 0, 0, 0, 1, 117, 0, 104, 46, 105, 0 >>
    /\ (IsV4Target /\ Written) =>
          /\ Len(wire) = 9 + Len(userid) + wrote
          /\ wire[9 + Len(userid)] = 0

\* a SOCKS4A request with a userid is on the wire and its reply is awaited
C5_Witness ==
    /\ IsDomainTarget
    /\ pc = "read_response"
    /\ userid = << 117, 0, 118 >>
    /\ wire = << 4, command, 31, 144, 0, 0, 0, 1, 117, 0, 118, 0, 104, 46, 105, 0 >>

\* C6: for an IPv4 target the request on the wire is exactly
\* 04 command port(be) ip(be) userid 00 with command 1 for connect and 2 for
\* bind; its first 8 bytes decode to the same version, command, port and
\* address; the request of the other entry point differs from it in byte 1 only.
C6_Ipv4Request ==
    IsV4Target =>
        /\ command = (IF entry = "connect" THEN 1 ELSE 2)
        /\ ~Written => IsPrefix(wire, Ipv4Request(command))
        /\ Written =>
              /\ IsPrefix(Ipv4Request(command), wire)
              /\ Len(wire) = Len(Ipv4Request(command)) + wrote
              /\ wire[1] = 4
              /\ wire[2] = command
              /\ wire[3] * 256 + wire[4] = target.addr.port
              /\ << wire[5], wire[6], wire[7], wire[8] >> = target.addr.ip
              /\ LET other == build_packet(3 - command, target, userid).bytes
                     mine == SubSeq(wire, 1, Len(wire) - wrote)
                 IN  /\ Len(other) = Len(mine)
                     /\ \A i \in 1 .. Len(mine) : (other[i] = mine[i]) <=> (i # 2)
              /\ (entry = "bind" /\ userid = << 117 >> /\ wrote = 0) =>
                    wire = << 4, 2, 1, 187, 198, 51, 100, 7, 117, 0 >>

\* a bind request for 198.51.100.7:443 is on the wire and its reply is awaited
C6_Witness ==
    /\ IsV4Target
    /\ entry = "bind"
    /\ pc = "read_response"
    /\ userid = << 117 >>
    /\ wire = << 4, 2, 1, 187, 198, 51, 100, 7, 117, 0 >>


\* a Socks4Stream or Socks4Listener exists: the caller holds it, or accept does
HasObject == pc \in {"Listener", "accept", "Stream"}

\* C7: a connect, bind or accept that returned an error left no stream or
\* listener and a closed transport (or none), and a stream or listener exists
\* only after a first reply with version 0 and status 90.
C7_NoObjectOnFailure ==
    /\ (~ret.ok /\ ret.op \in {"connect", "bind", "accept"}) =>
          /\ pc = "Err"
          /\ socket # "open"
          /\ proxy_addr = NoAddr
    /\ pc = "Err" => ~ret.ok /\ socket # "open" /\ ~HasObject
    /\ (HasObject \/ pc = "Inner") =>
          /\ socket = "open"
          /\ Read1
          /\ Reply(1)[1] = 0
          /\ Reply(1)[2] = 90
    /\ (pc = "Stream" /\ entry = "bind") =>
          /\ Read2
          /\ Reply(2)[1] = 0
          /\ Reply(2)[2] = 90
    /\ HasObject <=> proxy_addr # NoAddr

\* bind has failed on a rejecting reply after its request was written: the
\* transport is closed and there is no listener
C7_Witness ==
    /\ entry = "bind"
    /\ pc = "Err"
    /\ ret.op = "bind"
    /\ Read1
    /\ Reply(1)[2] = 92
    /\ wire # << >>
    /\ socket = "closed"
    /\ proxy_addr = NoAddr

\* the phase of a BIND session
Phase ==
    CASE pc = "Listener" -> 1                 \* Bound
      [] pc = "accept" -> 2                   \* accept is reading the second reply
      [] pc \in {"Stream", "Inner"} -> 3      \* Connected
      [] pc = "Err" -> 4                      \* failed
      [] OTHER -> 0                           \* Unbound

\* C8: a BIND session only moves forward: Unbound, Bound, accept, then
\* Connected or failed; Connected is entered only from an accept that the
\* listener started, and accept is called at most once.
C8_BindForwardOnly ==
    [][ entry = "bind" =>
          /\ Phase' >= Phase
          /\ (Phase' = 1 /\ Phase # 1) => Phase = 0
          /\ (Phase' = 2 /\ Phase # 2) => Phase = 1 /\ accepts = 0
          /\ (Phase' = 3 /\ Phase # 3) => Phase = 2 /\ accepts = 1
          /\ accepts' >= accepts
          /\ accepts' <= 1
          /\ Phase' = 1 => accepts' = 0 ]_vars

\* a BIND session is Connected after its one accept
C8_Witness ==
    /\ entry = "bind"
    /\ pc = "Stream"
    /\ accepts = 1
    /\ Read2

\* C9: in a BIND session the stored address is the first reply's from bind to
\* the end of accept's read, and the second reply's after a successful
\* accept; what proxy_addr returns before and after shows it.
C9_BindAddrOverwritten ==
    entry = "bind" =>
        /\ pc \in {"Listener", "accept"} => proxy_addr = ReplyAddr(1)
        /\ pc = "Stream" => proxy_addr = ReplyAddr(2)
        /\ (ret.op = "Listener.proxy_addr" /\ ret.ok) =>
              /\ ret.addr.port = ReplyAddr(1).port
              /\ ret.addr.ip \in {ReplyAddr(1).ip, peer.ip}
        /\ ret.op = "Stream.proxy_addr" => ret.addr = ReplyAddr(2)

\* the listener stored 10.0.0.1:8080, accept read 00 5A 00 50 00 00 02 00 and
\* the stream reports 0.0.2.0:80
C9_Witness ==
    /\ entry = "bind"
    /\ pc = "Stream"
    /\ ReplyAddr(1) = [fam |-> "V4", ip |-> << 10, 0, 0, 1 >>, port |-> 8080]
    /\ ReplyAddr(2) = [fam |-> "V4", ip |-> << 0, 0, 2, 0 >>, port |-> 80]
    /\ ret.op = "Stream.proxy_addr"
    /\ ret.addr = [fam |-> "V4", ip |-> << 0, 0, 2, 0 >>, port |-> 80]

\* C10: Socks4Listener::proxy_addr returns the transport's peer IP address, in
\* the peer's family, with the stored port when the stored address is
\* 0.0.0.0, and the stored address and port in every other case; first reply
\* 00 5A 1F 90 00 00 00 00 with peer 203.0.113.5 gives 203.0.113.5:8080.
C10_ListenerProxyAddr ==
    (ret.op = "Listener.proxy_addr" /\ ret.ok) =>
        /\ ReplyAddr(1).ip = << 0, 0, 0, 0 >> =>
              ret.addr = [fam |-> peer.fam, ip |-> peer.ip, port |-> ReplyAddr(1).port]
        /\ ReplyAddr(1).ip # << 0, 0, 0, 0 >> => ret.addr = ReplyAddr(1)
        /\ (Reply(1) = << 0, 90, 31, 144, 0, 0, 0, 0 >> /\ peer.ip = << 203, 0, 113, 5 >>) =>
              ret.addr = [fam |-> "V4", ip |-> << 203, 0, 113, 5 >>, port |-> 8080]

\* the listener of a proxy that answered 0.0.0.0:8080 reports 203.0.113.5:8080
C10_Witness ==
    /\ pc = "Listener"
    /\ Reply(1) = << 0, 90, 31, 144, 0, 0, 0, 0 >>
    /\ peer = [fam |-> "V4", ip |-> << 203, 0, 113, 5 >>, port |-> 1080]
    /\ ret.op = "Listener.proxy_addr"
    /\ ret.addr = [fam |-> "V4", ip |-> << 203, 0, 113, 5 >>, port |-> 8080]


\* C11: an accept that returns an error returns no stream and no address,
\* the listener with its stored address is gone and the transport is closed;
\* a second reply that is not 00 5A makes accept return an error; after the
\* error nothing more happens in the session.
C11_AcceptFailureTerminal ==
    [][ /\ (ret'.op = "accept" /\ ~ret'.ok) =>
              /\ pc' = "Err"
              /\ socket' = "closed"
              /\ proxy_addr' = NoAddr
              /\ ret'.addr = NoAddr
        /\ (rpos < 16 /\ rpos' >= 16 /\ entry = "bind"
              /\ (inbox[9] # 0 \/ inbox[10] # 90)) =>
              ret'.op = "accept" /\ ~ret'.ok
        /\ (ret.op = "accept" /\ ~ret.ok) => UNCHANGED vars ]_vars

\* accept has failed on a second reply 00 5B carrying 10.0.0.1:8080 after a
\* first reply carrying 0.0.2.0:80: no address is left
C11_Witness ==
    /\ entry = "bind"
    /\ Read2
    /\ Reply(1) = << 0, 90, 0, 80, 0, 0, 2, 0 >>
    /\ Reply(2) = << 0, 91, 31, 144, 10, 0, 0, 1 >>
    /\ pc = "Err"
    /\ ret.op = "accept"
    /\ ~ret.ok
    /\ ret.addr = NoAddr
    /\ proxy_addr = NoAddr
    /\ socket = "closed"


\* the request went out whole and the session failed before the proxy had
\* sent the 8 bytes of the first reply
ShortReply1 == pc = "Err" /\ packet # << >> /\ wire = packet /\ Len(inbox) < 8

\* accept was called and the session failed before the proxy had sent the 8
\* bytes of the second reply
ShortReply2 == pc = "Err" /\ entry = "bind" /\ accepts = 1 /\ Len(inbox) < 16

\* what a short reply ends in: the transport's own error, and no address
ShortOutcome(op) ==
    /\ ret.op = op
    /\ ~ret.ok
    /\ ret.addr = NoAddr
    /\ proxy_addr = NoAddr
    /\ ret.err \in { [kind |-> "UnexpectedEof", msg |-> "failed to fill whole buffer"],
                     [kind |-> "ConnectionReset", msg |-> "os error"] }
    /\ net = "eof" => ret.err.kind = "UnexpectedEof"

\* read_exact holds exactly the bytes of the current reply read so far
KeepsReading ==
    /\ pc = "read_response" => rpos < 8 /\ response = SubSeq(inbox, 1, rpos)
    /\ pc = "accept" => rpos >= 8 /\ rpos < 16 /\ response = SubSeq(inbox, 9, rpos)
    /\ pc \notin {"read_response", "accept"} => response = << >>

\* C12 (as amended): a reply cut short after 0 to 7 bytes makes connect, bind
\* or accept fail without an address, with the transport's error passed
\* through (UnexpectedEof at end of stream), and until then read_exact keeps
\* what it has read and goes on reading.
C12_ShortReply ==
    /\ ShortReply1 => ShortOutcome(entry)
    /\ ShortReply2 => ShortOutcome("accept")
    /\ KeepsReading

\* C12 as stated: the short reply is reported as the error of an unknown
\* status byte (MalformedResponse).
C12_ShortIsMalformed ==
    /\ C12_ShortReply
    /\ ShortReply1 => ret.err.kind = response_status(0).kind

\* accept had read 3 bytes of the second reply when the proxy closed
C12_Witness ==
    /\ ShortReply2
    /\ net = "eof"
    /\ Len(inbox) = 11
    /\ rpos = 11
    /\ ret.op = "accept"
    /\ ret.err.kind = "UnexpectedEof"


\* the bytes the handshake of the session takes: one reply, or two for BIND
Handshake == IF entry = "connect" THEN 8 ELSE 16

\* C13: connect takes exactly 8 bytes from the transport and bind followed by
\* accept exactly 16; what the stream's read has handed to the caller is what
\* the proxy sent from byte 9 (byte 17 after accept) on, in order and
\* unchanged, and holds no byte of a reply.
C13_HandshakeConsumesEight ==
    /\ pc \in {"Listener", "accept"} => rpos - Len(response) = 8
    /\ pc = "read_response" => rpos - Len(response) = 0
    /\ pc \in {"Stream", "Inner"} =>
          /\ rpos >= Handshake
          /\ Len(received) = rpos - Handshake
          /\ \A i \in 1 .. Len(received) : received[i] = inbox[Handshake + i]
    /\ pc \notin {"Stream", "Inner"} => received = << >>

\* after bind and accept the caller has read bytes 17 and 18 of what the
\* proxy sent, which differ
C13_Witness ==
    /\ entry = "bind"
    /\ pc = "Stream"
    /\ Len(inbox) = 18
    /\ inbox[17] # inbox[18]
    /\ received = << inbox[17], inbox[18] >>


\* C14: the transport is opened first, then the target is resolved, the
\* packet encoded and written whole, and only then is a reply byte read; the
\* one request is the only thing the handshake writes, accept writes nothing,
\* and after an error nothing more is done.
C14_StepOrder ==
    [][ /\ socket' # socket =>
              \/ pc = "tcp_connect" /\ socket = "none" /\ socket' = "open"
                    /\ packet = << >> /\ wire = << >> /\ rpos = 0
              \/ socket = "open" /\ socket' = "closed" /\ pc' = "Err"
        /\ (pc' = "encode" /\ pc # "encode") =>
              pc = "resolve" /\ socket = "open" /\ target.tag # "Bad"
        /\ packet' # packet =>
              pc = "encode" /\ packet = << >> /\ socket = "open" /\ wire = << >>
        /\ wire' # wire =>
              \/ pc = "write_all" /\ wire = << >> /\ rpos = 0 /\ response = << >>
                    /\ IsPrefix(wire', packet)
                    /\ (pc' # "Err" => wire' = packet)
              \/ pc = "Stream" /\ Len(wire') = Len(wire) + 1 /\ IsPrefix(wire, wire')
        /\ rpos' # rpos =>
              /\ pc \in {"read_response", "accept", "Stream"}
              /\ packet # << >>
              /\ IsPrefix(packet, wire)
        /\ pc \in {"Listener", "accept"} => wire = packet
        /\ pc = "Err" => UNCHANGED vars ]_vars

\* accept is reading the second reply of a BIND session whose one request is
\* all that was written
C14_Witness ==
    /\ entry = "bind"
    /\ pc = "accept"
    /\ rpos = 12
    /\ wire = packet
    /\ packet # << >>


\* where the encoder's userid terminator is in the request on the wire: the
\* request ends with it for an IPv4 target and with host 00 for a domain
UserIdTerminator ==
    (Len(wire) - wrote) - (IF IsDomainTarget THEN Len(target.host) + 1 ELSE 0)

\* no call is turned down for its userid: with an IPv4 or a domain target
\* InvalidInput is the error of a proxy argument that names no address,
\* returned before a socket is open
UserIdAccepted ==
    ((IsV4Target \/ IsDomainTarget) /\ ret.err.kind = "InvalidInput") =>
        /\ socket = "none"
        /\ to_socket_addrs(proxy).addrs = << >>

\* C15: a userid is never rejected, whatever its bytes, and the encoder copies
\* all of them into the request, a zero byte included, and puts its
\* terminator after the last one.
C15_UserIdVerbatim ==
    /\ UserIdAccepted
    /\ (packet # << >> /\ ~IsV6Target) =>
          /\ Len(packet) >= 9 + Len(userid)
          /\ SubSeq(packet, 9, 8 + Len(userid)) = userid
          /\ packet[9 + Len(userid)] = 0
    /\ Written =>
          /\ SubSeq(wire, 9, 8 + Len(userid)) = userid
          /\ UserIdTerminator = 9 + Len(userid)
          /\ wire[UserIdTerminator] = 0

\* C15 as first stated: no zero byte on the wire between the header and the
\* encoder's terminator
C15_UserIdTruncated ==
    /\ UserIdAccepted
    /\ Written => \A i \in 9 .. UserIdTerminator - 1 : wire[i] # 0

\* a request for an IPv4 target whose userid holds a zero byte was written and
\* granted
C15_Witness ==
    /\ userid = << 117, 0, 118 >>
    /\ IsV4Target
    /\ pc = "Stream"
    /\ ret.ok
    /\ SubSeq(wire, 9, 12) = << 117, 0, 118, 0 >>


\* connect_raw or accept is running
InHandshake == pc \in {"tcp_connect", "resolve", "encode", "write_all", "read_response"}
Returned == pc \in {"Listener", "Stream", "Err"}

\* read_response waits for bytes the proxy has not sent, on a connection that is up
Blocked ==
    /\ pc \in {"read_response", "accept"}
    /\ net = "up"
    /\ Len(response) + Avail < 8

\* C16: connect and bind return, and accept returns, once the transport
\* delivers the reply or ends; while the proxy stays connected and the reply
\* is incomplete the call neither returns nor fails.
C16_ReturnsOnlyOnTransport ==
    /\ InHandshake ~> Returned
    /\ (pc = "accept") ~> (pc \in {"Stream", "Err"})
    /\ [][ Blocked => (pc' = pc /\ ret' = ret /\ socket' = socket) ]_vars

\* accept waits with three bytes of the second reply read
C16_Witness ==
    /\ pc = "accept"
    /\ net = "up"
    /\ Len(response) = 3
    /\ Avail = 0
    /\ ret.ok
    /\ ret.op = "bind"


\* C17: after an accept the stream's proxy_addr succeeds and returns the
\* address and port of the second reply as they came; a second reply of
\* 0.0.0.0 is reported as 0.0.0.0 with its port and never as the peer.
C17_StreamAddrVerbatim ==
    (entry = "bind" /\ ret.op = "Stream.proxy_addr") =>
        /\ ret.ok
        /\ ret.addr = ReplyAddr(2)
        /\ ret.addr.ip # peer.ip
        /\ ReplyAddr(2).ip = << 0, 0, 0, 0 >> =>
              ret.addr = [fam |-> "V4", ip |-> << 0, 0, 0, 0 >>, port |-> ReplyAddr(2).port]

\* the stream of an accept whose reply named 0.0.0.0:8080 reports 0.0.0.0:8080,
\* on a connection that is broken
C17_Witness ==
    /\ entry = "bind"
    /\ pc = "Stream"
    /\ net = "err"
    /\ Reply(1) = << 0, 90, 0, 80, 0, 0, 2, 0 >>
    /\ Reply(2) = << 0, 90, 31, 144, 0, 0, 0, 0 >>
    /\ ret = Ok("Stream.proxy_addr", [fam |-> "V4", ip |-> << 0, 0, 0, 0 >>, port |-> 8080], 0)


\* a call of Socks4Listener::proxy_addr returns in this step
ListenerQuery == ret'.op = "Listener.proxy_addr" /\ ret' # ret

\* C18: a call of Socks4Listener::proxy_addr changes nothing but what it
\* returns: the stored address, the bytes read and written and the listener
\* stay as they are; with a stored address other than 0.0.0.0 it returns that
\* address whatever the state of the transport, and it fails only with
\* 0.0.0.0 stored and a peer_addr that fails.
C18_ListenerQueryPure ==
    [][ /\ ListenerQuery =>
              /\ pc = "Listener"
              /\ UNCHANGED << pc, entry, command, proxy, target, userid, socket, peer, net, packet,
                              wire, inbox, rpos, response, proxy_addr, received, wrote,
                              accepts >>
              /\ proxy_addr = ReplyAddr(1)
              /\ proxy_addr.ip # << 0, 0, 0, 0 >> => ret' = Ok("Listener.proxy_addr", proxy_addr, 0)
              /\ ~ret'.ok =>
                    /\ proxy_addr.ip = << 0, 0, 0, 0 >>
                    /\ net \in {"err", "shut"}
                    /\ ret'.err.kind = "NotConnected"
        /\ (ret.op = "Listener.proxy_addr" /\ pc = "Listener" /\ pc' # "Listener") =>
              pc' = "accept" /\ proxy_addr' = proxy_addr /\ rpos' = 8 ]_vars

\* the listener reports its stored 0.0.2.0:80 on a connection that is broken
C18_Witness ==
    /\ pc = "Listener"
    /\ net = "err"
    /\ proxy_addr = [fam |-> "V4", ip |-> << 0, 0, 2, 0 >>, port |-> 80]
    /\ ret = Ok("Listener.proxy_addr", proxy_addr, 0)
    /\ rpos = 8
    /\ wire = packet


\* a target connect_raw turns down: IPv6, or one to_target_addr cannot convert
IsInvalidTarget == IsV6Target \/ target.tag = "Bad"

\* the errors TcpStream::connect returns for the proxy argument
ConnectFailures ==
    IF ~to_socket_addrs(proxy).ok
    THEN { Error("InvalidInput", "invalid socket address") }
    ELSE IF to_socket_addrs(proxy).addrs = << >>
         THEN { Error("InvalidInput", "could not resolve to any addresses") }
         ELSE ConnectErrors

\* the errors connect_raw returns for the target
TargetErrors == { Error("InvalidInput", "invalid target"), ErrIpv6 }

\* C19: the target is looked at only on an open transport: with an invalid
\* target and a proxy that was reached, the connection was opened, nothing was
\* written on it and it is closed when the target's error is returned; when
\* no connection was opened the error is that of TcpStream::connect, whatever
\* the target, and no packet was started.
C19_ValidateAfterOpen ==
    /\ pc \in {"resolve", "encode"} => (socket = "open" /\ peer # NoAddr /\ wire = << >>)
    /\ (pc = "Err" /\ IsInvalidTarget) =>
          \/ /\ socket = "closed"
             /\ peer # NoAddr
             /\ wire = << >>
             /\ ret.err \in TargetErrors
          \/ /\ socket = "none"
             /\ peer = NoAddr
             /\ ret.err \in ConnectFailures
    /\ (pc = "Err" /\ socket = "none") =>
          /\ ret.op = entry
          /\ ~ret.ok
          /\ ret.err \in ConnectFailures
          /\ ret.err \notin TargetErrors
          /\ packet = << >>
          /\ wire = << >>
    /\ (IsInvalidTarget /\ socket # "none") => pc # "tcp_connect"

\* connect to an IPv6 target through a proxy that was reached: the connection
\* was opened to the peer and is closed, with nothing written
C19_Witness ==
    /\ entry = "connect"
    /\ IsV6Target
    /\ pc = "Err"
    /\ socket = "closed"
    /\ peer = [fam |-> "V4", ip |-> << 203, 0, 113, 5 >>, port |-> 1080]
    /\ wire = << >>
    /\ ret.err.kind = "InvalidInput"

====
